---- MODULE Spec2Model ----
(***************************************************************************)
(* The scheduler of package sched (goodbus): one worker goroutine that     *)
(* executes commands from a waiting queue, a pending queue and an idle     *)
(* ring, fed by Add through scheduleChan, with Remove marking schedules    *)
(* as removed and Start, SignalStop and WaitStop controlling the worker.   *)
(*                                                                         *)
(* Every action is one atomic step of one goroutine: a step ends where the *)
(* goroutine touches state that another goroutine can touch (the atomic    *)
(* Flags word, mapMutex, scheduleMap, the two channels, the wait group) or *)
(* where it can block.  The queues, the ring and triggerTime are touched   *)
(* by the worker only, so the worker's bookkeeping between two such points *)
(* is part of the step that precedes it.                                   *)
(***************************************************************************)
EXTENDS Integers, Sequences, FiniteSets, TLC

\* ------------------------------------------------------------------ bounds
\* Schedules accepted by Add in a run of the model.
MaxTasks == 3
\* The monotonic clock runs from 0 to MaxTime.
MaxTime == 2
\* Goroutines calling Remove concurrently.
NumRemovers == 1
\* Successful calls of Start where the scheduler is restarted.
MaxStarts == 2
\* Schedules accepted by Add where the scheduler is restarted.
RestartTasks == 2
\* Schedules accepted by Add where two names are in use.
TwoNameTasks == 2
\* The argument of NewScheduler: the capacity of scheduleChan.
ScheduleBufferSize == 1
\* The monotonic clock runs from 0 to TimingHorizon where times are observed.
TimingHorizon == 5
\* Schedules accepted by Add where times are observed.
TimingTasks == 2
\* The executions of the idle ring that are remembered where it is observed.
IdleRunLen == 4
\* The monotonic clock runs from 0 to IdleHorizon where the idle ring is
\* observed.
IdleHorizon == 1
\* Schedules accepted by Add in the scheduler that is left running.
LiveTasks == 4
\* The monotonic clock runs from 0 to QueueHorizon where the queues are
\* filled.
QueueHorizon == 4

\* --------------------------------------------------------- program constants
ScheduleRepeat == 1
ScheduleIdle == 2
ScheduleBurst == 4
ScheduleRemoveOnError == 8
scheduleRemoved == 16
\* math.MaxInt64 in the source; the largest integer of the model checker here.
inTheFuture == 2147483647

\* The absent schedule (a nil *Schedule).
NoSchedule == 0

Names == {"a", "b", "c"}
Removers == 1 .. NumRemovers
Runs == 1 .. MaxStarts

\* flags & bit != 0
HasFlag(flags, bit) == (flags \div bit) % 2 = 1
\* flags | bit
SetFlag(flags, bit) == IF HasFlag(flags, bit) THEN flags ELSE flags + bit

\* A schedule as Add is called with it.
Sched(flags, minWait, maxWait) ==
  [Flags |-> flags, MinWait |-> minWait, MaxWait |-> maxWait]

\* A call of Add: the command and the schedule it is given.
AddCall(command, schedule) == [command |-> command, schedule |-> schedule]

\* Calls of Add that Add rejects whatever the state: a nil command, a negative
\* MinWait, a MaxWait below MinWait.
BadCalls ==
  { AddCall("nil", Sched(0, 0, 0)), AddCall("cmd", Sched(0, -1, 0)),
    AddCall("cmd", Sched(0, 1, 0)) }

\* The callers of a scheduler use one name, again and again, for one-shot
\* and for repeating idle schedules.
OneNameWorkload ==
  [ starts   |-> 1,
    tasks    |-> MaxTasks,
    names    |-> {"a"},
    adds     |-> { AddCall("cmd", Sched(0, 0, 0)),
                   AddCall("cmd", Sched(ScheduleIdle + ScheduleRepeat, 0, 0)) }
                 \cup BadCalls,
    backlogs |-> {-1, 1},
    horizon  |-> MaxTime,
    timed    |-> FALSE,
    cyclic   |-> FALSE ]

\* The callers of a scheduler use two names, for one-shot schedules, for
\* repeating schedules removed on error, for repeating idle schedules and for
\* one-shot idle schedules with the flags that matter to repeating ones.
TwoNameWorkload ==
  [ starts   |-> 1,
    tasks    |-> TwoNameTasks,
    names    |-> {"a", "b"},
    adds     |-> { AddCall("cmd", Sched(0, 0, 0)),
                   AddCall("cmd",
                     Sched(ScheduleRepeat + ScheduleRemoveOnError, 0, 0)),
                   AddCall("cmd", Sched(ScheduleIdle + ScheduleRepeat, 0, 0)),
                   AddCall("cmd",
                     Sched(ScheduleIdle + ScheduleBurst + ScheduleRemoveOnError,
                           0, 0)) }
                 \cup BadCalls,
    backlogs |-> {-1, 1},
    horizon  |-> MaxTime,
    timed    |-> FALSE,
    cyclic   |-> FALSE ]

\* The callers of a scheduler that is stopped and started again.
RestartWorkload ==
  [ starts   |-> MaxStarts,
    tasks    |-> RestartTasks,
    names    |-> {"a"},
    adds     |-> { AddCall("cmd", Sched(0, 0, 0)),
                   AddCall("cmd", Sched(ScheduleIdle + ScheduleRepeat, 0, 0)) }
                 \cup BadCalls,
    backlogs |-> {-1, 0, 1},
    horizon  |-> MaxTime,
    timed    |-> FALSE,
    cyclic   |-> FALSE ]

\* The callers of a scheduler that is started once and stopped.
StopWorkload ==
  [ starts   |-> 1,
    tasks    |-> RestartTasks,
    names    |-> {"a"},
    adds     |-> { AddCall("cmd", Sched(0, 0, 0)),
                   AddCall("cmd", Sched(ScheduleIdle + ScheduleRepeat, 0, 0)) },
    backlogs |-> {1},
    horizon  |-> MaxTime,
    timed    |-> FALSE,
    cyclic   |-> FALSE ]

\* The callers of a scheduler with timed schedules: repeating ones with and
\* without BURST, with a window that is a point and with a wider one, and a
\* one-shot; the times of receipt and execution are observed.
TimingWorkload ==
  [ starts   |-> 1,
    tasks    |-> TimingTasks,
    names    |-> {"a", "b"},
    adds     |-> { AddCall("cmd", Sched(ScheduleRepeat, 1, 1)),
                   AddCall("cmd", Sched(ScheduleRepeat, 2, 2)),
                   AddCall("cmd", Sched(ScheduleRepeat + ScheduleBurst, 1, 1)),
                   AddCall("cmd", Sched(ScheduleRepeat + ScheduleBurst, 1, 2)),
                   AddCall("cmd", Sched(0, 1, 2)) },
    backlogs |-> {1},
    horizon  |-> TimingHorizon,
    timed    |-> TRUE,
    cyclic   |-> FALSE ]

\* The callers of a scheduler with idle schedules under three names, which
\* repeat or run once, and with timed one-shot schedules; the executions of
\* the idle ring are observed.
IdleWorkload ==
  [ starts   |-> 1,
    tasks    |-> MaxTasks,
    names    |-> {"a", "b", "c"},
    adds     |-> { AddCall("cmd", Sched(ScheduleIdle + ScheduleRepeat, 0, 0)),
                   AddCall("cmd", Sched(ScheduleIdle, 0, 0)),
                   AddCall("cmd", Sched(0, 0, 0)) },
    backlogs |-> {1},
    horizon  |-> IdleHorizon,
    timed    |-> FALSE,
    cyclic   |-> TRUE ]

\* The callers of a scheduler that is left running: idle schedules that
\* repeat or run once and timed one-shot schedules under three names, enough
\* of them for one to repeat while another is retired, a third waits in
\* scheduleChan and a fourth is being added.
LiveWorkload ==
  [ starts   |-> 1,
    tasks    |-> LiveTasks,
    names    |-> {"a", "b", "c"},
    adds     |-> { AddCall("cmd", Sched(ScheduleIdle + ScheduleRepeat, 0, 0)),
                   AddCall("cmd", Sched(ScheduleIdle, 0, 0)),
                   AddCall("cmd", Sched(0, 0, 0)) },
    backlogs |-> {1},
    horizon  |-> IdleHorizon,
    timed    |-> FALSE,
    cyclic   |-> FALSE ]

\* The callers of a scheduler whose queues hold up to three timed schedules
\* with different windows, repeating and one-shot.
QueueWorkload ==
  [ starts   |-> 1,
    tasks    |-> MaxTasks,
    names    |-> {"a", "b", "c"},
    adds     |-> { AddCall("cmd", Sched(ScheduleRepeat, 1, 1)),
                   AddCall("cmd", Sched(ScheduleRepeat + ScheduleBurst, 2, 3)),
                   AddCall("cmd", Sched(0, 0, 2)) },
    backlogs |-> {1},
    horizon  |-> QueueHorizon,
    timed    |-> FALSE,
    cyclic   |-> FALSE ]

VARIABLES
  isRunning,     \* Scheduler.isRunning
  scheduleChan,  \* Scheduler.scheduleChan: [buf, closed]
  errChan,       \* Scheduler.errChan: [buf, cap, closed]
  waitGroup,     \* Scheduler.waitGroup: its counter
  scheduleMap,   \* Scheduler.scheduleMap: name -> schedule or NoSchedule
  mapMutex,      \* Scheduler.mapMutex: "free", or "add" while Add holds it
  waitingQueue,  \* Scheduler.waitingQueue: the heap's slice of schedules
  pendingQueue,  \* Scheduler.pendingQueue
  idleRing,      \* Scheduler.idleRing: the ring from sr.ring along Next()
  schedules,     \* the Schedule objects ever allocated by Add
  adding,        \* the schedule of the Add call that is at its channel send
  removers,      \* the Remove calls in progress
  worker,        \* the run() goroutines, one per successful Start
  clock,         \* runtime.nanotime
  starts,        \* successful Start calls so far
  fault,         \* a run-time panic has ended the program
  execs,         \* per schedule: command.Execute() calls begun (at most 2 counted)
  fins,          \* per schedule: command.Finalize() calls (at most 2 counted)
  removeOks,     \* per schedule: Remove calls that returned nil (at most 2 counted)
  workload,      \* what the callers of this run do: their inputs and call counts
  removedInFlight, \* schedules not yet retired whose Remove returned nil
                 \* while their Execute() was in progress
  crossed,       \* schedules whose Add sent them after the scheduler was restarted
  idleRun,       \* where the workload has the idle ring observed: the last
                 \* schedules of the ring that were executed since a
                 \* schedule was last inserted into or removed from it
  passedOver,    \* where the workload has the idle ring observed: the pairs
                 \* <<t, u>> of schedules where u has been in the ring and
                 \* has not been executed since t was last executed from it
  leftBehind,    \* the schedules that were in a queue or in the idle ring when
                 \* a worker left its loop
  observed       \* per schedule, where the workload has the times observed:
                 \* the clock at its receipt, and of its last Execute() the
                 \* tick's now and the trigger time it was due with

vars == << isRunning, scheduleChan, errChan, waitGroup, scheduleMap, mapMutex,
           waitingQueue, pendingQueue, idleRing, schedules, adding, removers,
           worker, clock, starts, fault, execs, fins, removeOks,
           workload, observed, idleRun, removedInFlight, crossed, passedOver, leftBehind >>

\* ----------------------------------------------------------- monotonic time
\* t.Add( d )
TimeAdd(t, d) == t + d
\* t.Before( u )
Before(t, u) == t < u

\* ------------------------------------------------------------ priority queue
\* An order by descending trigger time.
Greater(s, q, i, j) == Before(s[q[j]].triggerTime, s[q[i]].triggerTime)

\* scheduleStack.Less on the slice q, by the trigger times in s.
Less(s, q, i, j) == Before(s[q[i]].triggerTime, s[q[j]].triggerTime)

\* scheduleStack.Swap
Swap(q, i, j) == [q EXCEPT ![i] = q[j], ![j] = q[i]]

\* container/heap up(h, j), with 1-based indices (the parent of j is j \div 2).
RECURSIVE up(_, _, _)
up(s, q, j) ==
  IF j = 1 THEN q
  ELSE LET i == j \div 2
       IN  IF ~Less(s, q, j, i) THEN q ELSE up(s, Swap(q, i, j), i)

\* container/heap down(h, i, n), with 1-based indices (children 2i and 2i+1).
RECURSIVE down(_, _, _, _)
down(s, q, i, n) ==
  LET j1 == 2 * i
  IN  IF j1 > n THEN q
      ELSE LET j == IF j1 + 1 <= n /\ Less(s, q, j1 + 1, j1) THEN j1 + 1 ELSE j1
           IN  IF ~Less(s, q, j, i) THEN q ELSE down(s, Swap(q, i, j), j, n)

\* ScheduleQueue.Push: heap.Push appends and sifts up.
QueuePush(s, q, x) == up(s, Append(q, x), Len(q) + 1)

\* A Pop that leaves the head in the queue.
QueuePopNothing(s, q) == q

\* ScheduleQueue.Pop: heap.Pop swaps head and last, sifts down, cuts the last.
QueuePop(s, q) ==
  IF Len(q) = 0 THEN q
  ELSE LET n == Len(q)
       IN  SubSeq(down(s, Swap(q, 1, n), 1, n - 1), 1, n - 1)

\* A queue that Start does not renew.
StaleQueue == pendingQueue

\* NewScheduleQueue: an empty queue.
NewScheduleQueue == << >>

\* ScheduleQueue.Peek
QueuePeek(q) == IF Len(q) = 0 THEN NoSchedule ELSE q[1]

\* ----------------------------------------------------------------- idle ring
\* The ring is the sequence of its schedules starting at sr.ring and following
\* Next().
\* ScheduleRing.IsEmpty
RingIsEmpty(r) == Len(r) = 0

\* ScheduleRing.Insert: the new element is linked in before sr.ring and
\* becomes sr.ring.
RingInsert(r, x) == <<x>> \o r

\* A Next that stays where it is.
RingNextStays(r) == r

\* ScheduleRing.Next: sr.ring moves one step on; the result is r'[1].
RingNext(r) == IF Len(r) = 0 THEN r ELSE Tail(r) \o <<Head(r)>>

\* ScheduleRing.Remove that unlinks nothing.
RingRemoveNothing(r) == r

\* A Remove that unlinks sr.ring and makes its successor sr.ring.
RingRemoveForward(r) == IF Len(r) = 0 THEN r ELSE Tail(r)

\* ScheduleRing.Remove: sr.ring is unlinked and its predecessor becomes sr.ring.
RingRemove(r) ==
  IF Len(r) <= 1 THEN << >>
  ELSE <<r[Len(r)]>> \o SubSeq(r, 2, Len(r) - 1)

\* ------------------------------------------------------------------- state
\* A worker goroutine that has not been started.
NoWorker ==
  [pc |-> "none", now |-> 0, candidate |-> NoSchedule, fromIdle |-> FALSE,
   flags |-> 0, didExecute |-> FALSE]

\* A worker at a place where the local variables of doSomeWork and execute
\* are dead (the functions have returned, or the values are not read again).
WorkerAt(pc) == [NoWorker EXCEPT !.pc = pc]

\* A worker at the select of doSomeWork: now and didExecute are still read.
WorkerAtPoll(now, didExecute) ==
  [NoWorker EXCEPT !.pc = "poll", !.now = now, !.didExecute = didExecute]

\* A Remove call that has not begun.
NoRemove == [pc |-> "idle", schedule |-> NoSchedule]

\* Nothing has been observed of a schedule.
NotObserved == [intake |-> -1, tick |-> -1, due |-> -1]

\* The observation o of a schedule, updated to u where times are observed.
Observe(o, u) == IF workload.timed THEN u ELSE o

\* The executions of the idle ring: run r with schedule t executed, of which
\* the last IdleRunLen are kept.
Executed(r, t) ==
  LET a == Append(r, t)
  IN  IF Len(a) > IdleRunLen THEN Tail(a) ELSE a

\* The pairs of p that schedule t has no part in.
Without(p, t) == {x \in p : x[1] # t /\ x[2] # t}

\* The pairs p after schedule t of the idle ring r was executed: t has had
\* its turn, and the other schedules of the ring wait for theirs since.
PassesOver(p, t, r) ==
  Without(p, t) \cup {<<t, r[i]>> : i \in {j \in 1 .. Len(r) : r[j] # t}}

\* The run of executions r, updated to u where the idle ring is observed.
ObserveRing(r, u) == IF workload.cyclic THEN u ELSE r

\* saturating count of an observed event
Count(n) == IF n < 2 THEN n + 1 ELSE n

\* NewScheduler: the scheduler after construction, before the first Start.
InitWith(load) ==
  /\ workload = load
  /\ isRunning = FALSE
  /\ scheduleChan = [buf |-> << >>, closed |-> FALSE]
  /\ errChan = [buf |-> << >>, cap |-> 0, closed |-> FALSE]
  /\ waitGroup = 0
  /\ scheduleMap = [n \in Names |-> NoSchedule]
  /\ mapMutex = "free"
  /\ waitingQueue = << >>
  /\ pendingQueue = << >>
  /\ idleRing = << >>
  /\ schedules = << >>
  /\ adding = NoSchedule
  /\ removers = [r \in Removers |-> NoRemove]
  /\ worker = [w \in Runs |-> NoWorker]
  /\ clock = 0
  /\ starts = 0
  /\ fault = FALSE
  /\ execs = << >>
  /\ fins = << >>
  /\ removeOks = << >>
  /\ removedInFlight = {}
  /\ crossed = {}
  /\ observed = << >>
  /\ idleRun = << >>
  /\ passedOver = {}
  /\ leftBehind = {}

Init == \E load \in {OneNameWorkload, TwoNameWorkload} : InitWith(load)

InitRestart == InitWith(RestartWorkload)

InitStop == InitWith(StopWorkload)

InitTiming == InitWith(TimingWorkload)

InitIdle == InitWith(IdleWorkload)

InitLive == InitWith(LiveWorkload)

InitQueue == InitWith(QueueWorkload)

\* --------------------------------------------------------------- life cycle
\* Start that does not test isRunning.
StartRejectedBacklogOnly(errorBacklog) == errorBacklog < 0

\* Start fails: the scheduler is running, or the backlog is negative.
StartRejected(errorBacklog) == isRunning \/ errorBacklog < 0

\* Start: fresh channels, wait group, map, queues and ring, and a new worker.
Start(errorBacklog) ==
  /\ ~fault
  /\ IF StartRejected(errorBacklog)
     THEN UNCHANGED vars
     ELSE /\ starts < workload.starts
          /\ errChan' = [buf |-> << >>, cap |-> errorBacklog, closed |-> FALSE]
          /\ scheduleChan' = [buf |-> << >>, closed |-> FALSE]
          /\ waitGroup' = 1
          /\ scheduleMap' = [n \in Names |-> NoSchedule]
          /\ waitingQueue' = NewScheduleQueue
          /\ pendingQueue' = NewScheduleQueue
          /\ idleRing' = << >>
          /\ worker' = [worker EXCEPT ![starts + 1] = WorkerAt("tick")]
          /\ starts' = starts + 1
          /\ isRunning' = TRUE
          /\ UNCHANGED << mapMutex, schedules, adding, removers, clock, fault,
                          execs, fins, removeOks,
                          workload, observed, idleRun, removedInFlight, crossed, passedOver, leftBehind >>

\* SignalStop: closes scheduleChan if running; closing a closed channel panics.
SignalStop ==
  /\ ~fault
  /\ IF ~isRunning
     THEN UNCHANGED vars
     ELSE IF scheduleChan.closed
          THEN /\ fault' = TRUE
               /\ UNCHANGED << isRunning, scheduleChan, errChan, waitGroup,
                    scheduleMap, mapMutex, waitingQueue, pendingQueue, idleRing,
                    schedules, adding, removers, worker, clock, starts, execs,
                    fins, removeOks, workload, observed, idleRun, removedInFlight, crossed, passedOver, leftBehind >>
          ELSE /\ scheduleChan' = [scheduleChan EXCEPT !.closed = TRUE]
               /\ UNCHANGED << isRunning, errChan, waitGroup, scheduleMap,
                    mapMutex, waitingQueue, pendingQueue, idleRing, schedules,
                    adding, removers, worker, clock, starts, fault, execs, fins,
                    removeOks, workload, observed, idleRun, removedInFlight, crossed, passedOver, leftBehind >>

\* WaitStop that does not wait for the worker.
WaitReturnsAtOnce == TRUE

\* waitGroup.Wait() returns
WaitReturns == waitGroup = 0

\* WaitStop: if running, waits for the wait group, then clears isRunning.
WaitStop ==
  /\ ~fault
  /\ IF ~isRunning
     THEN UNCHANGED vars
     ELSE /\ WaitReturns
          /\ isRunning' = FALSE
          /\ UNCHANGED << scheduleChan, errChan, waitGroup, scheduleMap,
               mapMutex, waitingQueue, pendingQueue, idleRing, schedules,
               adding, removers, worker, clock, starts, fault, execs, fins,
               removeOks, workload, observed, idleRun, removedInFlight, crossed, passedOver, leftBehind >>

\* ------------------------------------------------------------------- Add
\* The schedule scheduleMap holds under name is there and not marked removed.
NameTaken(name) ==
  /\ scheduleMap[name] # NoSchedule
  /\ ~HasFlag(schedules[scheduleMap[name]].Flags, scheduleRemoved)

\* Add that does not look the name up.
AddRejectedArgsOnly(name, command, schedule) ==
  \/ command = "nil"
  \/ schedule.MinWait < 0
  \/ schedule.MaxWait < schedule.MinWait

\* Add that does not test its arguments.
AddRejectedNameOnly(name, command, schedule) == NameTaken(name)

\* Add returns an error (lines 269-280).
AddRejected(name, command, schedule) ==
  \/ NameTaken(name)
  \/ command = "nil"
  \/ schedule.MinWait < 0
  \/ schedule.MaxWait < schedule.MinWait

\* The Schedule object Add allocates (its copy of the argument).
NewSchedule(name, command, schedule) ==
  [Flags |-> schedule.Flags, MinWait |-> schedule.MinWait,
   MaxWait |-> schedule.MaxWait, name |-> name, triggerTime |-> 0,
   command |-> command, once |-> FALSE, run |-> starts]

\* Add up to the channel send: lock, checks, insertion into scheduleMap.
\* Can only be called on a started scheduler.
AddBegin(name, command, schedule) ==
  /\ ~fault
  /\ isRunning
  /\ mapMutex = "free"
  /\ IF AddRejected(name, command, schedule)
     THEN UNCHANGED vars
     ELSE /\ Len(schedules) < workload.tasks
          /\ schedules' = Append(schedules, NewSchedule(name, command, schedule))
          /\ scheduleMap' = [scheduleMap EXCEPT ![name] = Len(schedules) + 1]
          /\ mapMutex' = "add"
          /\ adding' = Len(schedules) + 1
          /\ execs' = Append(execs, 0)
          /\ fins' = Append(fins, 0)
          /\ removeOks' = Append(removeOks, 0)
          /\ observed' = Append(observed, NotObserved)
          /\ UNCHANGED << isRunning, scheduleChan, errChan, waitGroup,
               waitingQueue, pendingQueue, idleRing, removers, worker, clock,
               starts, fault, workload, idleRun, removedInFlight, crossed, passedOver, leftBehind >>

\* The send s.scheduleChan <- &schedule can proceed.
CanSend == Len(scheduleChan.buf) < ScheduleBufferSize

\* The send of Add panics: scheduleChan is closed.  (An Add that began before
\* the scheduler was stopped and started again reads s.scheduleChan while
\* Start writes it: it may find the old, closed channel or the new one.)
SendPanics == scheduleChan.closed \/ schedules[adding].run # starts

\* Add's channel send and the deferred unlock.
AddSend ==
  /\ ~fault
  /\ adding # NoSchedule
  /\ \/ /\ SendPanics
        /\ fault' = TRUE
        /\ UNCHANGED << scheduleChan, mapMutex, adding >>
     \/ /\ ~scheduleChan.closed
        /\ CanSend
        /\ scheduleChan' = [scheduleChan EXCEPT !.buf = Append(@, adding)]
        /\ mapMutex' = "free"
        /\ adding' = NoSchedule
        /\ fault' = fault
  /\ crossed' = IF fault' \/ schedules[adding].run = starts
                THEN crossed ELSE crossed \cup {adding}
  /\ UNCHANGED << isRunning, errChan, waitGroup, scheduleMap, waitingQueue,
       pendingQueue, idleRing, schedules, removers, worker, clock, starts,
       execs, fins, removeOks, workload, observed, idleRun, removedInFlight,
       passedOver, leftBehind >>

\* ------------------------------------------------------------------ Remove
\* markRemoved that stores the flags as it loaded them.
markNothing(s, t) == s

\* Schedule.markRemoved on schedule t.
markRemoved(s, t) == [s EXCEPT ![t].Flags = SetFlag(@, scheduleRemoved)]

\* Remove, line 294-296: the map has no schedule of that name.
UnknownName(name) == scheduleMap[name] = NoSchedule

\* Remove, line 293-295: the lookup under the mutex; an unknown name is an error.
RemoveLookup(r, name) ==
  /\ ~fault
  /\ isRunning
  /\ removers[r].pc = "idle"
  /\ mapMutex = "free"
  /\ IF UnknownName(name)
     THEN UNCHANGED vars
     ELSE /\ removers' = [removers EXCEPT
                            ![r] = [pc |-> "looked", schedule |-> scheduleMap[name]]]
          /\ UNCHANGED << isRunning, scheduleChan, errChan, waitGroup,
               scheduleMap, mapMutex, waitingQueue, pendingQueue, idleRing,
               schedules, adding, worker, clock, starts, fault, execs, fins,
               removeOks, workload, observed, idleRun, removedInFlight, crossed, passedOver, leftBehind >>

\* Remove, line 296: the flags are loaded; a removed schedule is an error.
RemoveCheck(r) ==
  /\ ~fault
  /\ removers[r].pc = "looked"
  /\ removers' = [removers EXCEPT ![r] =
       IF HasFlag(schedules[removers[r].schedule].Flags, scheduleRemoved)
       THEN NoRemove
       ELSE [@ EXCEPT !.pc = "checked"]]
  /\ UNCHANGED << isRunning, scheduleChan, errChan, waitGroup, scheduleMap,
       mapMutex, waitingQueue, pendingQueue, idleRing, schedules, adding,
       worker, clock, starts, fault, execs, fins, removeOks,
       workload, observed, idleRun, removedInFlight, crossed, passedOver, leftBehind >>

\* Remove, line 299-301: the schedule is marked and Remove returns nil.
RemoveMark(r) ==
  /\ ~fault
  /\ removers[r].pc = "checked"
  /\ schedules' = markRemoved(schedules, removers[r].schedule)
  /\ removeOks' = [removeOks EXCEPT ![removers[r].schedule] = Count(@)]
  /\ removers' = [removers EXCEPT ![r] = NoRemove]
  /\ removedInFlight' =
       IF \E w \in Runs : /\ worker[w].pc = "exec"
                          /\ worker[w].candidate = removers[r].schedule
       THEN removedInFlight \cup {removers[r].schedule}
       ELSE removedInFlight
  /\ UNCHANGED << isRunning, scheduleChan, errChan, waitGroup, scheduleMap,
       mapMutex, waitingQueue, pendingQueue, idleRing, adding, worker, clock,
       starts, fault, execs, fins, workload, observed, idleRun, crossed, passedOver, leftBehind >>

\* ------------------------------------------------------------------ worker
\* The worker's program counter:
\*   "tick"    doSomeWork, line 117
\*   "load"    execute, line 87: about to load the candidate's flags
\*   "call"    execute, line 89: about to call command.Execute()
\*   "exec"    inside command.Execute()
\*   "send"    execute, line 91: at the send on errChan
\*   "mark"    execute, line 103: about to mark the candidate removed
\*   "lock"    execute, line 104: about to lock mapMutex
\*   "poll"    doSomeWork, line 165: at the select on scheduleChan
\*   "closing" run, line 204: about to close errChan
\*   "exiting" run, line 199: about to call waitGroup.Done()
\*   "done"    the goroutine has ended
Live(w) == worker[w].pc \notin {"none", "done"}

\* A promotion that waits until the trigger time has passed.
PromoteStrict(s, wq, pq, now) ==
  LET candidate == QueuePeek(wq)
  IN  IF candidate # NoSchedule /\ s[candidate].triggerTime < now
      THEN LET s2 == [s EXCEPT ![candidate].triggerTime =
                        TimeAdd(@, s[candidate].MaxWait - s[candidate].MinWait)]
           IN  [s |-> s2, wq |-> QueuePop(s, wq), pq |-> QueuePush(s2, pq, candidate)]
      ELSE [s |-> s, wq |-> wq, pq |-> pq]

\* doSomeWork, line 120-125: the waiting head moves to the pending queue when
\* its trigger time has come.  The result is the schedules and both queues.
Promote(s, wq, pq, now) ==
  LET candidate == QueuePeek(wq)
  IN  IF candidate # NoSchedule /\ s[candidate].triggerTime <= now
      THEN LET s2 == [s EXCEPT ![candidate].triggerTime =
                        TimeAdd(@, s[candidate].MaxWait - s[candidate].MinWait)]
           IN  [s |-> s2, wq |-> QueuePop(s, wq), pq |-> QueuePush(s2, pq, candidate)]
      ELSE [s |-> s, wq |-> wq, pq |-> pq]

\* A pending test that lets no pending schedule through.
PendingDueNever(s, pq, now) == FALSE

\* A pending test that is not strict.
PendingDueAtDeadline(s, pq, now) ==
  /\ QueuePeek(pq) # NoSchedule
  /\ s[QueuePeek(pq)].triggerTime <= now

\* doSomeWork, line 130: the pending head is to be executed in this tick.
PendingDue(s, pq, now) ==
  /\ QueuePeek(pq) # NoSchedule
  /\ Before(s[QueuePeek(pq)].triggerTime, now)

\* doSomeWork, line 117-147: the clock is read, one schedule is promoted, and
\* the candidate of this tick is taken from the pending queue or, failing
\* that, from the idle ring.  didExecute is set here for the execute to come.
Tick(w) ==
  /\ ~fault
  /\ worker[w].pc = "tick"
  /\ LET now == clock
         p == Promote(schedules, waitingQueue, pendingQueue, now)
     IN  /\ schedules' = p.s
         /\ waitingQueue' = p.wq
         /\ IF PendingDue(p.s, p.pq, now)
            THEN /\ pendingQueue' = QueuePop(p.s, p.pq)
                 /\ idleRing' = idleRing
                 /\ worker' = [worker EXCEPT ![w] =
                      [pc |-> "load", now |-> now, candidate |-> QueuePeek(p.pq),
                       fromIdle |-> FALSE, flags |-> 0, didExecute |-> TRUE]]
            ELSE /\ pendingQueue' = p.pq
                 /\ IF ~RingIsEmpty(idleRing)
                    THEN /\ idleRing' = RingNext(idleRing)
                         /\ worker' = [worker EXCEPT ![w] =
                              [pc |-> "load", now |-> now,
                               candidate |-> RingNext(idleRing)[1],
                               fromIdle |-> TRUE, flags |-> 0, didExecute |-> TRUE]]
                    ELSE /\ idleRing' = idleRing
                         /\ worker' = [worker EXCEPT ![w] = WorkerAtPoll(now, FALSE)]
  /\ UNCHANGED << isRunning, scheduleChan, errChan, waitGroup, scheduleMap,
       mapMutex, adding, removers, clock, starts, fault, execs, fins, removeOks,
       workload, observed, idleRun, removedInFlight, crossed, passedOver, leftBehind >>

\* execute, line 87-88 and 96-98: the flags are loaded; a removed schedule is
\* not executed and goes on to its removal.
LoadFlags(w) ==
  /\ ~fault
  /\ worker[w].pc = "load"
  /\ LET flags == schedules[worker[w].candidate].Flags
     IN  worker' = [worker EXCEPT ![w].flags = flags,
                      ![w].pc = IF HasFlag(flags, scheduleRemoved)
                                THEN "mark" ELSE "call"]
  /\ UNCHANGED << isRunning, scheduleChan, errChan, waitGroup, scheduleMap,
       mapMutex, waitingQueue, pendingQueue, idleRing, schedules, adding,
       removers, clock, starts, fault, execs, fins, removeOks,
       workload, observed, idleRun, removedInFlight, crossed, passedOver, leftBehind >>

\* execute, line 89: command.Execute() is called.
ExecuteCall(w) ==
  /\ ~fault
  /\ worker[w].pc = "call"
  /\ worker' = [worker EXCEPT ![w].pc = "exec"]
  /\ execs' = [execs EXCEPT ![worker[w].candidate] = Count(@)]
  /\ observed' = [observed EXCEPT ![worker[w].candidate] =
       Observe(@, [@ EXCEPT !.tick = worker[w].now,
                            !.due = schedules[worker[w].candidate].triggerTime])]
  /\ idleRun' = IF worker[w].fromIdle
                THEN ObserveRing(idleRun, Executed(idleRun, worker[w].candidate))
                ELSE idleRun
  /\ passedOver' = IF worker[w].fromIdle
                   THEN ObserveRing(passedOver,
                          PassesOver(passedOver, worker[w].candidate, idleRing))
                   ELSE passedOver
  /\ UNCHANGED << isRunning, scheduleChan, errChan, waitGroup, scheduleMap,
       mapMutex, waitingQueue, pendingQueue, idleRing, schedules, adding,
       removers, clock, starts, fault, fins, removeOks,
       workload, removedInFlight, crossed, leftBehind >>

\* The verdict without the test of REPEAT (line 99-101).
shouldRemoveOnError(flags, err) == err /\ HasFlag(flags, ScheduleRemoveOnError)

\* execute, line 86-101: the verdict after command.Execute() returned, with
\* the flags loaded at line 87 and whether Execute returned an error.
shouldRemove(flags, err) ==
  \/ err /\ HasFlag(flags, ScheduleRemoveOnError)
  \/ ~HasFlag(flags, ScheduleRepeat)

\* A reschedule that never drops the backlog.
RescheduledNoSnap(t, now) == TimeAdd(t.triggerTime, t.MinWait)

\* doSomeWork, line 135-139: the trigger time of a pending schedule that is kept.
Rescheduled(t, now) ==
  LET next == TimeAdd(t.triggerTime, t.MinWait)
  IN  IF next < now /\ ~HasFlag(t.Flags, ScheduleBurst)
      THEN TimeAdd(now, t.MinWait)
      ELSE next

\* execute, line 99-102, and doSomeWork, line 134-141: after the command the
\* schedule goes on to its removal, or is kept: a pending schedule is pushed
\* back to the waiting queue, an idle one stays in the ring.
AfterCommand(w, err) ==
  LET c == worker[w].candidate
  IN  IF shouldRemove(worker[w].flags, err)
      THEN /\ worker' = [worker EXCEPT ![w].pc = "mark"]
           /\ UNCHANGED << schedules, waitingQueue >>
      ELSE /\ worker' = [worker EXCEPT ![w] = WorkerAtPoll(worker[w].now, TRUE)]
           /\ IF worker[w].fromIdle
              THEN UNCHANGED << schedules, waitingQueue >>
              ELSE LET s2 == [schedules EXCEPT ![c].triggerTime =
                                Rescheduled(schedules[c], worker[w].now)]
                   IN  /\ schedules' = s2
                       /\ waitingQueue' = QueuePush(s2, waitingQueue, c)

\* execute, line 89-90: command.Execute() returns, with an error or without.
ExecuteReturn(w, err) ==
  /\ ~fault
  /\ worker[w].pc = "exec"
  /\ IF err
     THEN /\ worker' = [worker EXCEPT ![w].pc = "send"]
          /\ UNCHANGED << schedules, waitingQueue >>
     ELSE AfterCommand(w, FALSE)
  /\ UNCHANGED << isRunning, scheduleChan, errChan, waitGroup, scheduleMap,
       mapMutex, pendingQueue, idleRing, adding, removers, clock, starts,
       fault, execs, fins, removeOks, workload, observed, idleRun, removedInFlight, crossed, passedOver, leftBehind >>

\* A send on errChan that never waits.
HasRoomAlways == TRUE

\* execute, line 91: the send on errChan can proceed, the buffer has room.
HasRoom == Len(errChan.buf) < errChan.cap

\* A send on errChan that loses the error.
SentNowhere(e, err) == e

\* execute, line 91: the channel e after the send of err.
Sent(e, err) == [e EXCEPT !.buf = Append(@, err)]

\* execute, line 91: the error is sent on a buffered errChan that has room.
\* (A second worker could find the channel closed: that send panics.)
SendError(w) ==
  /\ ~fault
  /\ worker[w].pc = "send"
  /\ IF errChan.closed
     THEN /\ fault' = TRUE
          /\ UNCHANGED << errChan, worker, schedules, waitingQueue >>
     ELSE /\ HasRoom
          /\ errChan' = Sent(errChan, worker[w].candidate)
          /\ AfterCommand(w, TRUE)
          /\ fault' = fault
  /\ UNCHANGED << isRunning, scheduleChan, waitGroup, scheduleMap, mapMutex,
       pendingQueue, idleRing, adding, removers, clock, starts, execs, fins,
       removeOks, workload, observed, idleRun, removedInFlight, crossed, passedOver, leftBehind >>

\* The reader of the error channel receives: a buffered error, or, the channel
\* having no buffer, the error a worker is sending.
ReceiveError ==
  /\ ~fault
  /\ \/ /\ Len(errChan.buf) > 0
        /\ errChan' = [errChan EXCEPT !.buf = Tail(@)]
        /\ UNCHANGED << worker, schedules, waitingQueue >>
     \/ /\ errChan.cap = 0
        /\ ~errChan.closed
        /\ \E w \in Runs :
             /\ worker[w].pc = "send"
             /\ AfterCommand(w, TRUE)
        /\ errChan' = errChan
  /\ UNCHANGED << isRunning, scheduleChan, waitGroup, scheduleMap, mapMutex,
       pendingQueue, idleRing, adding, removers, clock, starts, fault, execs,
       fins, removeOks, workload, observed, idleRun, removedInFlight, crossed, passedOver, leftBehind >>

\* execute, line 103: the candidate is marked removed.
MarkCandidate(w) ==
  /\ ~fault
  /\ worker[w].pc = "mark"
  /\ schedules' = markRemoved(schedules, worker[w].candidate)
  /\ worker' = [worker EXCEPT ![w].pc = "lock"]
  /\ UNCHANGED << isRunning, scheduleChan, errChan, waitGroup, scheduleMap,
       mapMutex, waitingQueue, pendingQueue, idleRing, adding, removers, clock,
       starts, fault, execs, fins, removeOks,
       workload, observed, idleRun, removedInFlight, crossed, passedOver, leftBehind >>

\* execute without the delete of line 105.
DeleteNothing(m, s, candidate) == m

\* A delete that spares the entry of the candidate itself.
DeleteOthersOnly(m, s, candidate) ==
  IF m[s[candidate].name] = candidate
  THEN m
  ELSE [m EXCEPT ![s[candidate].name] = NoSchedule]

\* execute, line 105: delete( s.scheduleMap, candidate.name )
DeleteEntry(m, s, candidate) == [m EXCEPT ![s[candidate].name] = NoSchedule]

\* once.Do with its test inverted: Finalize is called only if once was used.
OnceDoInverted(s, f, candidate) ==
  IF s[candidate].once THEN [f EXCEPT ![candidate] = Count(@)] ELSE f

\* execute, line 107: candidate.once.Do( candidate.command.Finalize ), as the
\* count of Finalize calls it leaves: Finalize is called unless once was used.
OnceDoFinalize(s, f, candidate) ==
  IF s[candidate].once THEN f ELSE [f EXCEPT ![candidate] = Count(@)]

\* execute, line 104-107, and doSomeWork, line 149-151: under the mutex the
\* candidate's name is deleted from scheduleMap; then its finalizer runs
\* through once.Do, and an idle candidate is taken out of the ring.
Retire(w) ==
  /\ ~fault
  /\ worker[w].pc = "lock"
  /\ mapMutex = "free"
  /\ LET c == worker[w].candidate
     IN  /\ scheduleMap' = DeleteEntry(scheduleMap, schedules, c)
         /\ schedules' = [schedules EXCEPT ![c].once = TRUE]
         /\ fins' = OnceDoFinalize(schedules, fins, c)
         /\ idleRing' = IF worker[w].fromIdle THEN RingRemove(idleRing) ELSE idleRing
         /\ worker' = [worker EXCEPT ![w] = WorkerAtPoll(worker[w].now, TRUE)]
         /\ removedInFlight' = removedInFlight \ {c}
         /\ idleRun' = IF worker[w].fromIdle THEN << >> ELSE idleRun
         /\ passedOver' = IF worker[w].fromIdle
                          THEN Without(passedOver, c)
                          ELSE passedOver
  /\ UNCHANGED << isRunning, scheduleChan, errChan, waitGroup, mapMutex,
       waitingQueue, pendingQueue, adding, removers, clock, starts, fault,
       execs, removeOks, workload, observed, crossed, leftBehind >>

\* doSomeWork, line 156-164: the earliest trigger time of the two queue heads.
Later(s, wq, pq) ==
  LET l1 == IF QueuePeek(wq) # NoSchedule THEN s[QueuePeek(wq)].triggerTime
            ELSE inTheFuture
  IN  IF QueuePeek(pq) # NoSchedule /\ l1 > s[QueuePeek(pq)].triggerTime
      THEN s[QueuePeek(pq)].triggerTime
      ELSE l1

\* A test of line 165 that takes the select with the default case also when
\* the earliest trigger time equals now.
NonBlockingAtEquality(w) ==
  \/ worker[w].didExecute
  \/ Later(schedules, waitingQueue, pendingQueue) <= worker[w].now

\* doSomeWork, line 165: the select is the one with the default case.
NonBlocking(w) ==
  \/ worker[w].didExecute
  \/ Before(Later(schedules, waitingQueue, pendingQueue), worker[w].now)

\* doSomeWork, line 183-191: the received schedule goes to the idle ring, or
\* to the waiting queue with trigger time now + MinWait.
Intake(candidate, now) ==
  IF ~HasFlag(schedules[candidate].Flags, ScheduleIdle)
  THEN LET s2 == [schedules EXCEPT ![candidate].triggerTime =
                    TimeAdd(now, schedules[candidate].MinWait)]
       IN  /\ schedules' = s2
           /\ waitingQueue' = QueuePush(s2, waitingQueue, candidate)
           /\ idleRing' = idleRing
  ELSE /\ idleRing' = RingInsert(idleRing, candidate)
       /\ UNCHANGED << schedules, waitingQueue >>

\* doSomeWork, line 167 and 174: a schedule is received from scheduleChan; the
\* blocking select reads the clock again.
PollReceive(w) ==
  /\ ~fault
  /\ worker[w].pc = "poll"
  /\ Len(scheduleChan.buf) > 0
  /\ LET now == IF NonBlocking(w) THEN worker[w].now ELSE clock
     IN  /\ Intake(Head(scheduleChan.buf), now)
         /\ worker' = [worker EXCEPT ![w] = WorkerAt("tick")]
  /\ scheduleChan' = [scheduleChan EXCEPT !.buf = Tail(@)]
  /\ observed' = [observed EXCEPT ![Head(scheduleChan.buf)] =
       Observe(@, [@ EXCEPT !.intake = clock])]
  /\ idleRun' = IF HasFlag(schedules[Head(scheduleChan.buf)].Flags, ScheduleIdle)
                THEN << >>
                ELSE idleRun
  /\ UNCHANGED << isRunning, errChan, waitGroup, scheduleMap, mapMutex,
       pendingQueue, adding, removers, clock, starts, fault, execs, fins,
       removeOks, workload, removedInFlight, crossed, passedOver, leftBehind >>

\* A receive that does not see that the channel was closed.
ReceivesClosedNever == FALSE

\* doSomeWork, line 167 and 174: the receive from scheduleChan yields the zero
\* value and chanStillOpen = false: the channel is closed and drained.
ReceivesClosed == Len(scheduleChan.buf) = 0 /\ scheduleChan.closed

\* A run() that goes on with the loop when doSomeWork returned false.
AfterLoopAgain == "tick"

\* A run() that ends without closing errChan.
AfterLoopNoClose == "exiting"

\* run, line 201-204: where the worker goes on when doSomeWork returned false.
AfterLoop == "closing"

\* The schedules in the waiting queue, the pending queue and the idle ring.
Held ==
  {waitingQueue[i] : i \in 1 .. Len(waitingQueue)}
    \cup {pendingQueue[i] : i \in 1 .. Len(pendingQueue)}
    \cup {idleRing[i] : i \in 1 .. Len(idleRing)}

\* doSomeWork, line 167 and 174 on a closed and empty scheduleChan:
\* chanStillOpen is false and doSomeWork returns false.
PollClosed(w) ==
  /\ ~fault
  /\ worker[w].pc = "poll"
  /\ ReceivesClosed
  /\ worker' = [worker EXCEPT ![w] = WorkerAt(AfterLoop)]
  /\ leftBehind' = leftBehind \cup Held
  /\ UNCHANGED << isRunning, scheduleChan, errChan, waitGroup, scheduleMap,
       mapMutex, waitingQueue, pendingQueue, idleRing, schedules, adding,
       removers, clock, starts, fault, execs, fins, removeOks,
       workload, observed, idleRun, removedInFlight, crossed, passedOver >>

\* doSomeWork, line 169-170: nothing to receive, the default case.
PollDefault(w) ==
  /\ ~fault
  /\ worker[w].pc = "poll"
  /\ NonBlocking(w)
  /\ Len(scheduleChan.buf) = 0
  /\ ~scheduleChan.closed
  /\ worker' = [worker EXCEPT ![w] = WorkerAt("tick")]
  /\ UNCHANGED << isRunning, scheduleChan, errChan, waitGroup, scheduleMap,
       mapMutex, waitingQueue, pendingQueue, idleRing, schedules, adding,
       removers, clock, starts, fault, execs, fins, removeOks,
       workload, observed, idleRun, removedInFlight, crossed, passedOver, leftBehind >>

\* doSomeWork, line 177-178: the timer of later - now fires.
PollTimer(w) ==
  /\ ~fault
  /\ worker[w].pc = "poll"
  /\ ~NonBlocking(w)
  /\ Later(schedules, waitingQueue, pendingQueue) # inTheFuture
  /\ clock >= Later(schedules, waitingQueue, pendingQueue)
  /\ worker' = [worker EXCEPT ![w] = WorkerAt("tick")]
  /\ UNCHANGED << isRunning, scheduleChan, errChan, waitGroup, scheduleMap,
       mapMutex, waitingQueue, pendingQueue, idleRing, schedules, adding,
       removers, clock, starts, fault, execs, fins, removeOks,
       workload, observed, idleRun, removedInFlight, crossed, passedOver, leftBehind >>

\* run, line 204: close( s.errChan ); closing a closed channel panics.
CloseErrChan(w) ==
  /\ ~fault
  /\ worker[w].pc = "closing"
  /\ IF errChan.closed
     THEN /\ fault' = TRUE
          /\ UNCHANGED << errChan, worker >>
     ELSE /\ errChan' = [errChan EXCEPT !.closed = TRUE]
          /\ worker' = [worker EXCEPT ![w].pc = "exiting"]
          /\ fault' = fault
  /\ UNCHANGED << isRunning, scheduleChan, waitGroup, scheduleMap, mapMutex,
       waitingQueue, pendingQueue, idleRing, schedules, adding, removers,
       clock, starts, execs, fins, removeOks,
       workload, observed, idleRun, removedInFlight, crossed, passedOver, leftBehind >>

\* run, line 199: the deferred waitGroup.Done(); a negative counter panics.
WorkerDone(w) ==
  /\ ~fault
  /\ worker[w].pc = "exiting"
  /\ IF waitGroup = 0
     THEN /\ fault' = TRUE
          /\ UNCHANGED << waitGroup, worker >>
     ELSE /\ waitGroup' = waitGroup - 1
          /\ worker' = [worker EXCEPT ![w].pc = "done"]
          /\ fault' = fault
  /\ UNCHANGED << isRunning, scheduleChan, errChan, scheduleMap, mapMutex,
       waitingQueue, pendingQueue, idleRing, schedules, adding, removers,
       clock, starts, execs, fins, removeOks,
       workload, observed, idleRun, removedInFlight, crossed, passedOver, leftBehind >>

\* The monotonic clock advances.  The worker reads it at line 117 and 175 and
\* waits for it at line 177, and a command takes time: the clock moves while a
\* worker is at one of these places.
TimePasses ==
  /\ ~fault
  /\ clock < workload.horizon
  /\ \E w \in Runs : worker[w].pc \in {"tick", "exec", "poll"}
  /\ clock' = clock + 1
  /\ UNCHANGED << isRunning, scheduleChan, errChan, waitGroup, scheduleMap,
       mapMutex, waitingQueue, pendingQueue, idleRing, schedules, adding,
       removers, worker, starts, fault, execs, fins, removeOks,
       workload, observed, idleRun, removedInFlight, crossed, passedOver, leftBehind >>

\* ------------------------------------------------------------ specification
Next ==
  \/ \E b \in workload.backlogs : Start(b)
  \/ SignalStop
  \/ WaitStop
  \/ \E n \in workload.names, a \in workload.adds :
        AddBegin(n, a.command, a.schedule)
  \/ AddSend
  \/ \E r \in Removers, n \in workload.names : RemoveLookup(r, n)
  \/ \E r \in Removers : RemoveCheck(r)
  \/ \E r \in Removers : RemoveMark(r)
  \/ \E w \in Runs : Tick(w)
  \/ \E w \in Runs : LoadFlags(w)
  \/ \E w \in Runs : ExecuteCall(w)
  \/ \E w \in Runs, err \in BOOLEAN : ExecuteReturn(w, err)
  \/ \E w \in Runs : SendError(w)
  \/ ReceiveError
  \/ \E w \in Runs : MarkCandidate(w)
  \/ \E w \in Runs : Retire(w)
  \/ \E w \in Runs : PollReceive(w)
  \/ \E w \in Runs : PollClosed(w)
  \/ \E w \in Runs : PollDefault(w)
  \/ \E w \in Runs : PollTimer(w)
  \/ \E w \in Runs : CloseErrChan(w)
  \/ \E w \in Runs : WorkerDone(w)
  \/ TimePasses

\* The steps of a scheduler that is not stopped.
Running ==
  \/ \E b \in workload.backlogs : Start(b)
  \/ \E n \in workload.names, a \in workload.adds :
        AddBegin(n, a.command, a.schedule)
  \/ AddSend
  \/ \E r \in Removers, n \in workload.names : RemoveLookup(r, n)
  \/ \E r \in Removers : RemoveCheck(r)
  \/ \E r \in Removers : RemoveMark(r)
  \/ \E w \in Runs : Tick(w)
  \/ \E w \in Runs : LoadFlags(w)
  \/ \E w \in Runs : ExecuteCall(w)
  \/ \E w \in Runs, err \in BOOLEAN : ExecuteReturn(w, err)
  \/ \E w \in Runs : SendError(w)
  \/ ReceiveError
  \/ \E w \in Runs : MarkCandidate(w)
  \/ \E w \in Runs : Retire(w)
  \/ \E w \in Runs : PollReceive(w)
  \/ \E w \in Runs : PollDefault(w)
  \/ \E w \in Runs : PollTimer(w)
  \/ TimePasses

Spec == Init /\ [][Running]_vars

SpecRestart == InitRestart /\ [][Next]_vars

\* What the scheduling of the goroutines ensures.  The worker goroutine goes
\* on whenever it can; of the select's ready cases each is chosen again and
\* again, so the receives from scheduleChan are strongly fair; every command
\* returns, the reader of the error channel drains it, an Add that can send
\* (or panic) does, and the caller that stops the scheduler calls WaitStop.
\* The clock is under no obligation to advance.
Fairness ==
  /\ \A w \in Runs :
       /\ WF_vars(Tick(w))
       /\ WF_vars(LoadFlags(w))
       /\ WF_vars(ExecuteCall(w))
       /\ WF_vars(\E err \in BOOLEAN : ExecuteReturn(w, err))
       /\ WF_vars(SendError(w))
       /\ WF_vars(MarkCandidate(w))
       /\ WF_vars(Retire(w))
       /\ SF_vars(PollReceive(w))
       /\ SF_vars(PollClosed(w))
       /\ WF_vars(CloseErrChan(w))
       /\ WF_vars(WorkerDone(w))
  /\ WF_vars(ReceiveError)
  /\ WF_vars(AddSend)
  /\ WF_vars(isRunning /\ WaitStop)

SpecStop == InitStop /\ [][Next]_vars /\ Fairness

\* The steps of a running scheduler whose schedules nobody removes and whose
\* commands return no error.
Timed ==
  \/ \E b \in workload.backlogs : Start(b)
  \/ \E n \in workload.names, a \in workload.adds :
        AddBegin(n, a.command, a.schedule)
  \/ AddSend
  \/ \E w \in Runs : Tick(w)
  \/ \E w \in Runs : LoadFlags(w)
  \/ \E w \in Runs : ExecuteCall(w)
  \/ \E w \in Runs : ExecuteReturn(w, FALSE)
  \/ \E w \in Runs : MarkCandidate(w)
  \/ \E w \in Runs : Retire(w)
  \/ \E w \in Runs : PollReceive(w)
  \/ \E w \in Runs : PollDefault(w)
  \/ \E w \in Runs : PollTimer(w)
  \/ TimePasses

SpecTiming == InitTiming /\ [][Timed]_vars

SpecIdle == InitIdle /\ [][Timed]_vars

\* What the scheduling of the goroutines ensures of a scheduler that is not
\* stopped: the worker goroutine goes on whenever it can, a schedule waiting
\* in scheduleChan is received by a select that is reached again and again,
\* every command returns, an Add that can send does, and the monotonic clock
\* advances (it is read at the places where TimePasses is enabled, which the
\* worker reaches again and again, hence strongly fair).  Nobody is obliged
\* to call Add.
FairnessRunning ==
  /\ \A w \in Runs :
       /\ WF_vars(Tick(w))
       /\ WF_vars(LoadFlags(w))
       /\ WF_vars(ExecuteCall(w))
       /\ WF_vars(ExecuteReturn(w, FALSE))
       /\ WF_vars(MarkCandidate(w))
       /\ WF_vars(Retire(w))
       /\ SF_vars(PollReceive(w))
       /\ WF_vars(PollDefault(w))
       /\ WF_vars(PollTimer(w))
  /\ WF_vars(AddSend)
  /\ SF_vars(TimePasses)

SpecQueue == InitQueue /\ [][Timed]_vars

SpecLive == InitLive /\ [][Timed]_vars /\ FairnessRunning

\* ------------------------------------------------------------------ claims
Tasks == 1 .. Len(schedules)

\* The REMOVED bit of schedule t is set.
Removed(t) == HasFlag(schedules[t].Flags, scheduleRemoved)

\* Schedule t was added to the scheduler as it was last started.
InScheduler(t) == schedules[t].run = starts

\* Schedule t is live: accepted by Add, not marked removed (and so not retired).
LiveTask(t) == InScheduler(t) /\ ~Removed(t)

\* The worker has retired schedule t: it has run once.Do for it.
Retired(t) == schedules[t].once

\* The worker waits for mapMutex, which an Add holds that cannot send:
\* neither can go on, whatever the other goroutines do.
Stuck ==
  /\ adding # NoSchedule
  /\ ~scheduleChan.closed
  /\ ~CanSend
  /\ \E w \in Runs : worker[w].pc = "lock"

\* C1: over start/stop/start cycles with Add and Remove called concurrently,
\* at most one worker goroutine exists and at most one command.Execute() is
\* in progress.
MutualExclusion ==
  /\ Cardinality({w \in Runs : Live(w)}) <= 1
  /\ Cardinality({w \in Runs : worker[w].pc = "exec"}) <= 1

\* C1: the worker of the second start executes a command after the worker of
\* the first has ended.
MutualExclusionWitness ==
  /\ starts > 1
  /\ worker[1].pc = "done"
  /\ \E w \in Runs : w > 1 /\ worker[w].pc = "exec"

\* C2: in no reachable state is a producer blocked on the send to scheduleChan
\* while the worker is blocked waiting for mapMutex.
NoIngressDeadlock == ~Stuck

\* C3: mapMutex is not held by a goroutine that is blocked on a channel
\* operation: an Add that holds it can complete its send.
LockDiscipline == mapMutex # "free" => (CanSend \/ scheduleChan.closed)

\* C4: Finalize of a schedule is called at most once, and exactly once if the
\* worker has retired the schedule.
FinalizeOnce ==
  \A t \in Tasks : fins[t] <= 1 /\ (Retired(t) => fins[t] = 1)

\* C4: a schedule that Remove marked has been retired by the worker and its
\* Finalize has run.
FinalizeOnceWitness ==
  \E t \in Tasks : removeOks[t] > 0 /\ Retired(t) /\ fins[t] = 1

\* C5: no two live schedules of the scheduler have the same name (Add rejects
\* the name of a live schedule).
NoTwoLiveSameName ==
  \A t, u \in Tasks :
    (t # u /\ LiveTask(t) /\ LiveTask(u)) => schedules[t].name # schedules[u].name

\* C6: every live schedule is the entry of scheduleMap under its own name.
LiveTaskHasEntry ==
  \A t \in Tasks : LiveTask(t) => scheduleMap[schedules[t].name] = t

\* C7: every entry of scheduleMap refers to a schedule whose REMOVED bit is
\* not set.
EntryIsLive ==
  \A n \in Names : scheduleMap[n] # NoSchedule => ~Removed(scheduleMap[n])

\* C7, amended: every entry of scheduleMap refers to a schedule that the
\* worker has not retired and whose Finalize has not been called.
EntryNotRetired ==
  \A n \in Names :
    scheduleMap[n] # NoSchedule =>
      ~Retired(scheduleMap[n]) /\ fins[scheduleMap[n]] = 0

\* C7: the map holds an entry for a schedule marked removed while the worker
\* has retired another schedule.
EntryNotRetiredWitness ==
  /\ \E n \in Names : scheduleMap[n] # NoSchedule /\ Removed(scheduleMap[n])
  /\ \E t \in Tasks : Retired(t)

\* C8: Remove does not fail for want of an entry while a live schedule of
\* that name is in the scheduler.
RemoveFindsLiveTask ==
  \A t \in Tasks : LiveTask(t) => ~UnknownName(schedules[t].name)

\* C9: the worker never calls Execute of a schedule for which a Remove has
\* returned nil.
NoExecuteAfterRemove ==
  [][ \A w \in Runs :
        (worker[w].pc = "call" /\ worker'[w].pc = "exec")
          => removeOks[worker[w].candidate] = 0 ]_vars

\* What execute does ensure: the worker never goes on to call Execute of a
\* schedule for which a Remove had returned nil when it loaded the flags.
NoExecuteWhenRemovedAtLoad ==
  [][ \A w \in Runs :
        (worker[w].pc = "load" /\ worker'[w].pc = "call")
          => removeOks[worker[w].candidate] = 0 ]_vars

\* A schedule that Remove marked was met and retired by the worker without
\* its command having been executed.
NoExecuteWitness ==
  \E t \in Tasks : removeOks[t] > 0 /\ execs[t] = 0 /\ Retired(t)

\* C10: a schedule removed before its first execution and not yet finalized
\* is never left with a worker that cannot go on to finalize it.
RemovedTaskFinalizable ==
  \A t \in Tasks :
    (InScheduler(t) /\ removeOks[t] > 0 /\ execs[t] = 0 /\ fins[t] = 0) => ~Stuck

Range(q) == {q[i] : i \in 1 .. Len(q)}

Waiting(t) ==
  t \in Range(scheduleChan.buf) \cup Range(waitingQueue)
          \cup Range(pendingQueue) \cup Range(idleRing)

\* C12: once the worker has retired a schedule, no Execute() of it begins and
\* it is in neither queue nor in the idle ring (nor is it the worker's
\* candidate).
NoExecuteAfterRetirement ==
  [][ /\ \A w \in Runs :
           (worker[w].pc = "call" /\ worker'[w].pc = "exec")
             => ~Retired(worker[w].candidate)
      /\ \A t \in Tasks :
           Retired(t)' => /\ ~Waiting(t)'
                          /\ \A w \in Runs : worker'[w].candidate # t ]_vars

\* C12: a repeating schedule was executed and then retired, and the worker
\* is executing another command.
NoExecuteAfterRetirementWitness ==
  \E t \in Tasks :
    /\ Retired(t)
    /\ HasFlag(schedules[t].Flags, ScheduleRepeat)
    /\ execs[t] > 0
    /\ \E w \in Runs : worker[w].pc = "exec"

\* The worker of an encounter goes on to retire its candidate.
Retires(w) == worker'[w].pc = "mark"

\* The worker of an encounter keeps its candidate: a pending schedule is back
\* in the waiting queue, an idle one is still in the ring.
Keeps(w) ==
  /\ worker'[w].pc = "poll"
  /\ IF worker[w].fromIdle
     THEN worker[w].candidate \in Range(idleRing')
     ELSE worker[w].candidate \in Range(waitingQueue')

\* C13: an encounter retires the schedule exactly if the REMOVED bit was set
\* when the flags were loaded, or Execute() returned an error and
\* REMOVE_ON_ERROR is set, or REPEAT is not set; otherwise the schedule is
\* kept.  A schedule without REPEAT is executed at most once.
RetirementVerdict ==
  [][ /\ \A w \in Runs :
           LET f == schedules[worker[w].candidate].Flags
           IN  /\ (worker[w].pc = "load" /\ worker'[w].pc # "load")
                    => IF HasFlag(f, scheduleRemoved)
                       THEN Retires(w) ELSE worker'[w].pc = "call"
               /\ (worker[w].pc = "exec" /\ worker'[w].pc \notin {"exec", "send"})
                    => IF ~HasFlag(f, ScheduleRepeat) THEN Retires(w) ELSE Keeps(w)
               /\ (worker[w].pc = "send" /\ worker'[w].pc # "send")
                    => IF \/ HasFlag(f, ScheduleRemoveOnError)
                          \/ ~HasFlag(f, ScheduleRepeat)
                       THEN Retires(w) ELSE Keeps(w)
      /\ \A t \in Tasks :
           ~HasFlag(schedules[t].Flags, ScheduleRepeat) => execs'[t] <= 1 ]_vars

\* C13: a repeating schedule with REMOVE_ON_ERROR, not removed when its flags
\* were loaded, is to be retired: its Execute() returned an error.
RetirementVerdictWitness ==
  \E w \in Runs :
    /\ worker[w].pc = "mark"
    /\ HasFlag(worker[w].flags, ScheduleRepeat)
    /\ HasFlag(worker[w].flags, ScheduleRemoveOnError)
    /\ ~HasFlag(worker[w].flags, scheduleRemoved)

BlockedInSend(w) ==
  /\ worker[w].pc = "send"
  /\ ~errChan.closed
  /\ Len(errChan.buf) >= errChan.cap

Allocates == Len(schedules') > Len(schedules)

Allocated == schedules'[Len(schedules')]

\* C16: an Add that returns an error (the name is that of a schedule in
\* scheduleMap not marked removed, the command is nil, MinWait < 0 or
\* MaxWait < MinWait) changes nothing: a step that allocates a schedule,
\* inserts into scheduleMap or sends on scheduleChan is a step of an Add whose
\* arguments pass all four tests.
RejectedAddNoEffect ==
  [][ /\ Allocates
           => /\ Allocated.command # "nil"
              /\ Allocated.MinWait >= 0
              /\ Allocated.MaxWait >= Allocated.MinWait
              /\ \/ scheduleMap[Allocated.name] = NoSchedule
                 \/ Removed(scheduleMap[Allocated.name])
      /\ \A n \in Names :
           (scheduleMap'[n] \notin {scheduleMap[n], NoSchedule}) => Allocates
      /\ (Len(scheduleChan'.buf) > Len(scheduleChan.buf))
           => /\ adding # NoSchedule
              /\ scheduleChan'.buf = Append(scheduleChan.buf, adding)
      /\ (mapMutex' = "add" /\ mapMutex = "free") => Allocates ]_vars

\* C16: a schedule not marked removed is in scheduleMap while the worker
\* executes a command: an Add under its name is rejected.
RejectedAddWitness ==
  /\ \E n \in Names : scheduleMap[n] # NoSchedule /\ ~Removed(scheduleMap[n])
  /\ \E w \in Runs : worker[w].pc = "exec"
  /\ Len(schedules) < workload.tasks

\* C17: every schedule in scheduleChan, in a queue or in the idle ring, or in
\* the worker's hands, has a command and 0 <= MinWait <= MaxWait.
AddValidation ==
  \A t \in Tasks :
    (Waiting(t) \/ \E w \in Runs : worker[w].candidate = t)
      => /\ schedules[t].command # "nil"
         /\ 0 <= schedules[t].MinWait
         /\ schedules[t].MinWait <= schedules[t].MaxWait

\* C17: schedules wait in the waiting queue and in the idle ring.
AddValidationWitness ==
  /\ waitingQueue # << >>
  /\ idleRing # << >>

\* C18: Start succeeds only on a scheduler that is not running and with a
\* backlog >= 0, and then starts exactly one worker, no other being alive;
\* a Start that fails changes nothing, and on a scheduler that is not running
\* a Start with a valid backlog succeeds.
StartLifecycle ==
  /\ [][ /\ (starts' # starts)
              => /\ ~isRunning
                 /\ isRunning'
                 /\ starts' = starts + 1
                 /\ errChan'.cap >= 0
                 /\ \A w \in Runs : ~Live(w)
                 /\ worker' = [worker EXCEPT ![starts'] = WorkerAt("tick")]
         /\ (isRunning' /\ ~isRunning) => starts' # starts
         /\ (worker' # worker /\ starts' = starts)
              => \A w \in Runs : worker[w].pc = "none" => worker'[w].pc = "none"
       ]_vars
  /\ [](( ~isRunning /\ ~fault /\ starts < workload.starts )
          => ENABLED (Start(0) /\ starts' = starts + 1))

\* C18: the scheduler was started, stopped and started again and is running,
\* so that a further Start is refused.
StartLifecycleWitness ==
  /\ starts = 2
  /\ isRunning
  /\ worker[2].pc = "exec"

\* Schedule t went to a scheduler run that has been stopped: its Add sent it
\* before the scheduler was started again.
Stale(t) == schedules[t].run < starts /\ t \notin crossed

\* C19: a Start after a stop begins with an empty scheduleMap, an empty
\* scheduleChan, empty queues and an empty ring, so that every name can be
\* added again; a schedule that was added before the stop is not in the new
\* run's channel, queues or ring, is not the worker's candidate, and is
\* neither executed nor finalized in the new run.
RestartClean ==
  [][ /\ (starts' # starts)
           => /\ scheduleMap' = [n \in Names |-> NoSchedule]
              /\ scheduleChan' = [buf |-> << >>, closed |-> FALSE]
              /\ waitingQueue' = << >>
              /\ pendingQueue' = << >>
              /\ idleRing' = << >>
              /\ \A n \in Names : ~NameTaken(n)'
      /\ \A t \in Tasks :
           Stale(t)' => /\ ~Waiting(t)'
                        /\ \A w \in Runs : Live(w)' => worker'[w].candidate # t
                        /\ execs'[t] = execs[t]
                        /\ fins'[t] = fins[t] ]_vars

\* C19: the scheduler was restarted with a schedule left in a queue of the
\* first run, and the worker of the second run executes a schedule added
\* under the same name.
RestartCleanWitness ==
  /\ starts = 2
  /\ worker[2].pc = "exec"
  /\ \E t \in Tasks :
       /\ Stale(t)
       /\ ~Retired(t)
       /\ schedules[t].name = schedules[worker[2].candidate].name

\* C20: the worker calls waitGroup.Done() only after it has closed errChan;
\* when WaitStop returns, and as long as the scheduler is not started again,
\* the worker has ended, errChan is closed, and no Execute() or Finalize()
\* begins.
ShutdownOrdering ==
  [][ /\ \A w \in Runs :
           (worker[w].pc = "exiting" /\ worker'[w].pc = "done")
             => errChan.closed
      /\ (isRunning /\ ~isRunning')
           => /\ waitGroup = 0
              /\ worker[starts].pc = "done"
      /\ (~isRunning' /\ starts' > 0)
           => /\ errChan'.closed
              /\ \A w \in Runs : ~Live(w)'
      /\ (~isRunning /\ ~isRunning')
           => \A t \in Tasks : execs'[t] = execs[t] /\ fins'[t] = fins[t] ]_vars

\* C20: WaitStop has returned while a schedule of the stopped run was still
\* to be executed.
ShutdownOrderingWitness ==
  /\ ~isRunning
  /\ starts = 1
  /\ worker[1].pc = "done"
  /\ errChan.closed
  /\ \E t \in Tasks : execs[t] = 0 /\ ~Retired(t)

\* C21: once scheduleChan of a running scheduler is closed, the worker ends
\* and WaitStop returns (unless a goroutine has panicked), whatever the clock
\* does.
ShutdownLiveness ==
  (isRunning /\ scheduleChan.closed) ~> (~isRunning \/ fault)

\* C21: the scheduler was stopped with an idle schedule still repeating: the
\* worker has ended and WaitStop has returned.
ShutdownLivenessWitness ==
  /\ ~isRunning
  /\ ~fault
  /\ worker[1].pc = "done"
  /\ \E t \in Tasks : execs[t] > 1 /\ ~Removed(t)

\* Schedule t is a timed one: it has no IDLE flag.
TimedTask(t) == ~HasFlag(schedules[t].Flags, ScheduleIdle)

\* C22: the tick in which a timed schedule's command is executed for the
\* first time has a clock value of at least the clock at which the worker
\* received the schedule from scheduleChan plus MinWait.
FirstExecutionLowerBound ==
  \A t \in Tasks :
    (TimedTask(t) /\ execs[t] = 1 /\ observed[t].tick >= 0)
      => observed[t].tick >= observed[t].intake + schedules[t].MinWait

\* Nominal load for schedule t: it is a timed schedule not yet executed, the
\* worker received it with the clock it stamped it with, and it is the only
\* schedule in the queues, the worker being about to tick.
Nominal(t) ==
  /\ TimedTask(t)
  /\ execs[t] = 0
  /\ observed[t].intake >= 0
  /\ Range(scheduleChan.buf) = {}
  /\ Range(waitingQueue) \cup Range(pendingQueue) = {t}
  /\ schedules[t].triggerTime = observed[t].intake +
       (IF t \in Range(waitingQueue) THEN schedules[t].MinWait
                                     ELSE schedules[t].MaxWait)

\* C23: under nominal load the first execution of a timed schedule happens
\* at a clock value no later than its receipt + MaxWait: the tick the worker
\* makes when the clock has reached receipt + MaxWait executes it.
FirstExecutionUpperBound ==
  [][\A w \in Runs, t \in Tasks :
       (Tick(w) /\ Nominal(t)
          /\ clock = observed[t].intake + schedules[t].MaxWait)
         => (worker'[w].pc = "load" /\ worker'[w].candidate = t)]_vars

\* C24: two successive executions of a timed REPEAT schedule, with BURST or
\* without, happen in ticks whose clock values are at least MinWait apart.
NonRegression ==
  [][\A w \in Runs :
       ExecuteCall(w) =>
         LET c == worker[w].candidate
         IN  (TimedTask(c) /\ HasFlag(schedules[c].Flags, ScheduleRepeat)
                /\ observed[c].tick >= 0)
               => worker[w].now >= observed[c].tick + schedules[c].MinWait]_vars

\* Schedule t repeats with BURST, waits alone in the queues, and a period of
\* MinWait it has not been executed for has fully elapsed.
BurstOwed(t) ==
  /\ TimedTask(t)
  /\ HasFlag(schedules[t].Flags, ScheduleRepeat)
  /\ HasFlag(schedules[t].Flags, ScheduleBurst)
  /\ Range(waitingQueue) = {t}
  /\ Range(pendingQueue) = {}
  /\ schedules[t].triggerTime < clock

\* C25: a REPEAT schedule with BURST is executed once for every period of
\* MinWait that elapsed while the worker could not tick: as long as a period
\* is owed the next tick executes it; and rescheduling it adds MinWait to its
\* trigger time and never moves the trigger time to now.
BurstPreservation ==
  [][\A w \in Runs, t \in Tasks :
       /\ (Tick(w) /\ BurstOwed(t))
            => (worker'[w].pc = "load" /\ worker'[w].candidate = t)
       /\ (ExecuteReturn(w, FALSE) /\ worker[w].candidate = t
             /\ ~worker[w].fromIdle /\ worker'[w].pc = "poll"
             /\ HasFlag(schedules[t].Flags, ScheduleBurst))
            => schedules'[t].triggerTime =
                 schedules[t].triggerTime + schedules[t].MinWait]_vars

\* The last execution of schedule t was so late that its trigger time plus
\* MinWait was already before the now of the tick, and t has no BURST flag.
BacklogDropped(t) ==
  /\ TimedTask(t)
  /\ HasFlag(schedules[t].Flags, ScheduleRepeat)
  /\ ~HasFlag(schedules[t].Flags, ScheduleBurst)
  /\ observed[t].tick >= 0
  /\ observed[t].due + schedules[t].MinWait < observed[t].tick

\* C26: when a REPEAT schedule without BURST is kept after an execution in a
\* tick with clock value now and its trigger time plus MinWait is before now,
\* its trigger time becomes now + MinWait, and its next execution happens in
\* a tick whose clock value is at least now + MinWait.
BurstAbsence ==
  [][\A w \in Runs, t \in Tasks :
       /\ (ExecuteReturn(w, FALSE) /\ worker[w].candidate = t
             /\ worker'[w].pc = "poll" /\ BacklogDropped(t))
            => schedules'[t].triggerTime = worker[w].now + schedules[t].MinWait
       /\ (ExecuteCall(w) /\ worker[w].candidate = t /\ BacklogDropped(t))
            => worker[w].now >= observed[t].tick + schedules[t].MinWait]_vars

\* The worker is about to execute again a schedule whose backlog was dropped.
BurstAbsenceWitness ==
  \E w \in Runs, t \in Tasks :
    /\ worker[w].pc = "call"
    /\ worker[w].candidate = t
    /\ BacklogDropped(t)

\* C27: a tick invokes at most one Execute(): the worker enters execute only
\* from the tick, with one candidate, and calls Execute() only from there;
\* and the candidate is a schedule of the idle ring only if the tick left no
\* pending head with a trigger time before the tick's now.
OneExecutionPerTick ==
  [][\A w \in Runs :
       /\ (worker'[w].pc = "load" /\ worker[w].pc # "load") => Tick(w)
       /\ (worker'[w].pc = "call" /\ worker[w].pc # "call")
            => worker[w].pc = "load"
       /\ ExecuteCall(w) => (worker[w].pc = "call" /\ worker'[w].pc # "call")
       /\ (Tick(w) /\ worker'[w].pc = "load" /\ worker'[w].fromIdle)
            => ~ (/\ QueuePeek(pendingQueue') # NoSchedule
                  /\ schedules'[QueuePeek(pendingQueue')].triggerTime
                       < worker'[w].now)]_vars

\* The worker executes a pending schedule in a tick that found the idle ring
\* not empty.
OneExecutionPerTickWitness ==
  \E w \in Runs :
    /\ worker[w].pc = "exec"
    /\ ~worker[w].fromIdle
    /\ ~RingIsEmpty(idleRing)

\* The last n elements of sequence q (all of them if there are fewer).
Last(q, n) == IF Len(q) <= n THEN q ELSE SubSeq(q, Len(q) - n + 1, Len(q))

\* C28: with n schedules in the idle ring, the executions of the ring since
\* a schedule was last inserted, removed or retired are executions of
\* schedules of the ring, any n consecutive ones (or fewer) execute n
\* different schedules, and the order repeats with period n.
IdleRoundRobin ==
  LET n == Len(idleRing)
      k == Len(idleRun)
      w == Last(idleRun, n)
  IN  /\ Range(idleRun) \subseteq Range(idleRing)
      /\ \A i, j \in 1 .. Len(w) : i # j => w[i] # w[j]
      /\ \A i \in 1 .. k : i + n <= k => idleRun[i] = idleRun[i + n]

\* A ring of three schedules has been executed once around and once more.
IdleRoundRobinWitness ==
  /\ Len(idleRing) = 3
  /\ Len(idleRun) = IdleRunLen
  /\ \A t \in Range(idleRing) :
       HasFlag(schedules[t].Flags, ScheduleRepeat) /\ ~Removed(t)

\* C29: Finalize() of a schedule begins only when its REMOVED bit has been
\* set, and the step that runs it leaves no entry of scheduleMap that refers
\* to it; from then on no entry refers to it, so that its name is taken only
\* by a schedule of a later Add.
FinalizeFollowsRemoval ==
  /\ [][\A t \in Tasks :
          fins'[t] > fins[t]
            => (Removed(t) /\ \A n \in Names : scheduleMap'[n] # t)]_vars
  /\ [](\A t \in Tasks :
          fins[t] > 0
            => /\ Removed(t)
               /\ \A n \in Names : scheduleMap[n] # t
               /\ NameTaken(schedules[t].name)
                    => scheduleMap[schedules[t].name] > t)

\* A schedule that nobody removed has been finalized, and an Add of the same
\* name has been accepted since.
FinalizeFollowsRemovalWitness ==
  \E t \in Tasks :
    /\ fins[t] > 0
    /\ removeOks[t] = 0
    /\ NameTaken(schedules[t].name)
    /\ scheduleMap[schedules[t].name] > t

\* The number of places of sequence q that hold schedule t.
Occurrences(q, t) == Cardinality({i \in 1 .. Len(q) : q[i] = t})

\* The number of places schedule t has in scheduleChan, the two queues and
\* the idle ring together.
Places(t) ==
  Occurrences(scheduleChan.buf, t) + Occurrences(waitingQueue, t)
    + Occurrences(pendingQueue, t) + Occurrences(idleRing, t)

\* The worker is between two ticks and no Add is between its first write and
\* its send.
AtRest ==
  /\ \E w \in Runs : worker[w].pc = "tick"
  /\ adding = NoSchedule

\* C30: when the worker is between ticks and no Add is in progress, every
\* schedule that scheduleMap refers to and whose REMOVED bit is not set has
\* exactly one place in scheduleChan, the waiting queue, the pending queue
\* and the idle ring; and always no schedule has two places, an IDLE schedule
\* has none in the two queues and a schedule without IDLE none in the ring.
TaskLocation ==
  /\ AtRest =>
       \A n \in Names :
         NameTaken(n) => Places(scheduleMap[n]) = 1
  /\ \A t \in Tasks :
       /\ Places(t) <= 1
       /\ TimedTask(t) => t \notin Range(idleRing)
       /\ ~TimedTask(t) => t \notin Range(waitingQueue) \cup Range(pendingQueue)

\* At rest scheduleMap refers to a schedule in the idle ring and to one in
\* the waiting or pending queue.
TaskLocationWitness ==
  /\ AtRest
  /\ \E n, m \in Names :
       /\ NameTaken(n) /\ scheduleMap[n] \in Range(idleRing)
       /\ NameTaken(m)
       /\ scheduleMap[m] \in Range(waitingQueue) \cup Range(pendingQueue)

\* The Add of schedule t has returned nil: t has been sent to scheduleChan.
Accepted(t) == t \in Tasks /\ adding # t

\* The clock has reached the end of its range before the deadline of the
\* timed schedule t could pass.
OutOfTime(t) ==
  /\ t \in Tasks
  /\ TimedTask(t)
  /\ clock = workload.horizon
  /\ \/ /\ t \in Range(waitingQueue)
        /\ schedules[t].triggerTime + schedules[t].MaxWait
             - schedules[t].MinWait >= workload.horizon
     \/ /\ t \in Range(pendingQueue)
        /\ schedules[t].triggerTime >= workload.horizon

\* Schedule t has been executed at least once.
Ran(t) == t \in Tasks /\ execs[t] > 0

\* The command of schedule t has been finalized.
Finalized(t) == t \in Tasks /\ fins[t] > 0

\* C31: in a scheduler that keeps running, whose commands return (without
\* error) and whose schedules nobody removes, every schedule whose Add has
\* returned nil is eventually executed, and one without REPEAT is then
\* finalized.
EveryAcceptedTaskRuns ==
  \A t \in 1 .. LiveTasks :
    /\ Accepted(t) ~> (Ran(t) \/ OutOfTime(t))
    /\ (Ran(t) /\ ~HasFlag(schedules[t].Flags, ScheduleRepeat)) ~> Finalized(t)

\* What does hold of C31: every accepted schedule is executed, and finalized
\* if it does not repeat, unless the worker and an Add block each other.
EveryAcceptedTaskRunsUnlessStuck ==
  \A t \in 1 .. LiveTasks :
    /\ Accepted(t) ~> (Ran(t) \/ OutOfTime(t) \/ Stuck)
    /\ (Ran(t) /\ ~HasFlag(schedules[t].Flags, ScheduleRepeat))
         ~> (Finalized(t) \/ Stuck)

\* The command of schedule t is being executed.
Executing(t) ==
  \E w \in Runs : worker[w].pc = "exec" /\ worker[w].candidate = t

\* C32: in a scheduler that keeps running, whose commands return (without
\* error) and whose schedules nobody removes, a REPEAT schedule that has been
\* executed is executed again, after each of its executions.
RepeatTasksRecur ==
  \A t \in 1 .. LiveTasks :
    (Ran(t) /\ HasFlag(schedules[t].Flags, ScheduleRepeat) /\ ~Executing(t))
      ~> (Executing(t) \/ OutOfTime(t))

\* What does hold of C32: a REPEAT schedule is executed again and again
\* unless the worker and an Add block each other.
RepeatTasksRecurUnlessStuck ==
  \A t \in 1 .. LiveTasks :
    (Ran(t) /\ HasFlag(schedules[t].Flags, ScheduleRepeat) /\ ~Executing(t))
      ~> (Executing(t) \/ OutOfTime(t) \/ Stuck)

\* C33: a tick moves the head of the waiting queue to the pending queue if
\* the head's trigger time is at or before the tick's now, adding MaxWait -
\* MinWait to the trigger time, and moves nothing otherwise; it moves no
\* second schedule, and no other step moves a schedule to the pending queue.
PromotionRule ==
  [][/\ \A w \in Runs :
          Tick(w) =>
            LET head == QueuePeek(waitingQueue)
            IN  IF head # NoSchedule /\ schedules[head].triggerTime <= clock
                THEN /\ Len(waitingQueue') = Len(waitingQueue) - 1
                     /\ head \notin Range(waitingQueue')
                     /\ \/ head \in Range(pendingQueue')
                        \/ worker'[w].pc = "load" /\ worker'[w].candidate = head
                     /\ schedules'[head].triggerTime =
                          schedules[head].triggerTime
                            + schedules[head].MaxWait - schedules[head].MinWait
                     /\ \A t \in Tasks \ {head} :
                          schedules'[t].triggerTime = schedules[t].triggerTime
                ELSE /\ waitingQueue' = waitingQueue
                     /\ Range(pendingQueue') \subseteq Range(pendingQueue)
                     /\ \A t \in Tasks :
                          schedules'[t].triggerTime = schedules[t].triggerTime
     /\ Range(pendingQueue') \subseteq Range(pendingQueue)
          \/ \E w \in Runs : Tick(w)]_vars

\* The worker has promoted, in a tick whose now equals the trigger time, a
\* schedule with MinWait < MaxWait, and executed nothing.
PromotionRuleWitness ==
  \E w \in Runs, t \in Tasks :
    /\ worker[w].pc = "poll"
    /\ ~worker[w].didExecute
    /\ t \in Range(pendingQueue)
    /\ schedules[t].MinWait < schedules[t].MaxWait
    /\ schedules[t].triggerTime =
         worker[w].now + schedules[t].MaxWait - schedules[t].MinWait

\* Schedule t, with MinWait = MaxWait, is the head of the waiting queue and
\* its trigger time has come.
PointWindowDue(t) ==
  /\ QueuePeek(waitingQueue) = t
  /\ schedules[t].MinWait = schedules[t].MaxWait
  /\ schedules[t].triggerTime <= clock

\* C34: a schedule with MaxWait = MinWait is never promoted and executed in
\* one and the same tick.
NeverPromotedAndExecuted ==
  [][\A w \in Runs, t \in Tasks :
       (Tick(w) /\ PointWindowDue(t))
         => ~(worker'[w].pc = "load" /\ worker'[w].candidate = t)]_vars

\* C34, amended: a schedule with MaxWait = MinWait is not promoted and
\* executed in the same tick if the tick's now equals its trigger time; a
\* tick whose now is later than its trigger time and that finds the pending
\* queue empty promotes and executes it at once.
PromotedAndExecutedOnlyLate ==
  [][\A w \in Runs, t \in Tasks :
       (Tick(w) /\ PointWindowDue(t))
         => /\ schedules[t].triggerTime = clock
                 => (t \in Range(pendingQueue')
                       /\ ~(worker'[w].pc = "load" /\ worker'[w].candidate = t))
            /\ (schedules[t].triggerTime < clock /\ pendingQueue = << >>)
                 => (worker'[w].pc = "load" /\ worker'[w].candidate = t)]_vars

\* A tick whose now equalled the trigger time has promoted a schedule with
\* MaxWait = MinWait and executed nothing.
PromotedAndExecutedOnlyLateWitness ==
  \E w \in Runs, t \in Tasks :
    /\ worker[w].pc = "poll"
    /\ ~worker[w].didExecute
    /\ t \in Range(pendingQueue)
    /\ schedules[t].MinWait = schedules[t].MaxWait
    /\ schedules[t].triggerTime = worker[w].now

\* The steps of worker w at its select, given whether the select is the one
\* with the default case: that one receives without reading the clock anew
\* or goes on at once; the other one receives and reads the clock anew, or
\* goes on when the timer of the earliest trigger time has fired.
SelectSteps(w, nonBlocking) ==
  LET later == Later(schedules, waitingQueue, pendingQueue)
      stamp == IF nonBlocking THEN worker[w].now ELSE clock
  IN  /\ PollReceive(w) =>
           LET c == Head(scheduleChan.buf)
           IN  TimedTask(c) =>
                 schedules'[c].triggerTime = stamp + schedules[c].MinWait
      /\ PollDefault(w) => nonBlocking
      /\ PollTimer(w) => (~nonBlocking /\ clock >= later)

\* C35: the worker takes the non-blocking select when it has executed a
\* command in this tick or the earliest trigger time of the waiting and
\* pending heads is at or before now, and the blocking one only otherwise.
PollingRule ==
  [][\A w \in Runs :
       SelectSteps(w, \/ worker[w].didExecute
                      \/ Later(schedules, waitingQueue, pendingQueue)
                           <= worker[w].now)]_vars

\* C35, amended: the worker takes the non-blocking select when it has
\* executed a command in this tick or the earliest trigger time is before
\* now; when it equals now the worker takes the blocking select, whose timer
\* of zero fires at once and whose receive reads the clock anew.
PollingRuleStrict ==
  [][\A w \in Runs :
       SelectSteps(w, \/ worker[w].didExecute
                      \/ Later(schedules, waitingQueue, pendingQueue)
                           < worker[w].now)]_vars

\* The worker is at its select having executed nothing, the earliest trigger
\* time equals the tick's now, a schedule waits in scheduleChan and the
\* clock has moved on.
PollingRuleStrictWitness ==
  \E w \in Runs :
    /\ worker[w].pc = "poll"
    /\ ~worker[w].didExecute
    /\ Later(schedules, waitingQueue, pendingQueue) = worker[w].now
    /\ Len(scheduleChan.buf) > 0
    /\ clock > worker[w].now

\* ------------------------------------------------------------------- C36
\* The head of the queue q: Peek shows no schedule exactly when q is empty,
\* and otherwise a schedule triggering no later than any schedule in q.
HeadMinimal(q) ==
  /\ (QueuePeek(q) = NoSchedule) <=> (Len(q) = 0)
  /\ \A i \in 1 .. Len(q) :
       schedules[QueuePeek(q)].triggerTime <= schedules[q[i]].triggerTime

\* What a step takes out of the queue q (p is q after the step) is at most one
\* schedule, and is one that triggered no later than any schedule in q.
PopsHead(q, p) ==
  /\ Cardinality(Range(q) \ Range(p)) <= 1
  /\ \A t \in Range(q) \ Range(p) :
       \A u \in Range(q) : schedules[t].triggerTime <= schedules[u].triggerTime

\* A schedule whose trigger time changes in a step does not stay in a queue
\* through that step.
TriggerTimeChangesOutsideQueues ==
  \A t \in Tasks :
    schedules'[t].triggerTime # schedules[t].triggerTime =>
      /\ ~(t \in Range(waitingQueue) /\ t \in Range(waitingQueue'))
      /\ ~(t \in Range(pendingQueue) /\ t \in Range(pendingQueue'))

\* The schedule a tick takes from the pending queue to execute it has the
\* earliest deadline of all pending schedules.
ExecutesEarliestDeadline ==
  \A w \in Runs :
    (worker[w].pc = "tick" /\ worker'[w].pc = "load" /\ ~worker'[w].fromIdle) =>
      \A u \in Range(pendingQueue') :
        schedules'[worker'[w].candidate].triggerTime <= schedules'[u].triggerTime

\* C36: in every reachable state the head of the waiting queue and the head
\* of the pending queue are minimal by trigger time, with Peek showing no
\* schedule exactly for an empty queue; every step takes out of a queue at
\* most its minimal schedule; a trigger time changes only for a schedule that
\* is not held in a queue through the change; and the pending schedule a tick
\* executes has the earliest deadline of all pending schedules.
QueueHeadMinimal ==
  /\ [](HeadMinimal(waitingQueue) /\ HeadMinimal(pendingQueue))
  /\ [][/\ PopsHead(waitingQueue, waitingQueue')
        /\ PopsHead(pendingQueue, pendingQueue')
        /\ TriggerTimeChangesOutsideQueues
        /\ ExecutesEarliestDeadline]_vars

\* C36: a tick has taken the head of a pending queue of two schedules with
\* different deadlines to execute it, the later one staying pending, while
\* the waiting queue holds a schedule too.
QueueHeadMinimalWitness ==
  \E w \in Runs :
    /\ worker[w].pc = "load"
    /\ ~worker[w].fromIdle
    /\ Len(pendingQueue) >= 1
    /\ Len(waitingQueue) >= 1
    /\ schedules[worker[w].candidate].triggerTime
         < schedules[pendingQueue[1]].triggerTime

\* ------------------------------------------------------------------- C37
\* The worker w is between the Next() of the idle ring in its tick and the
\* end of the execute of the schedule this Next() returned.
AfterRingNext(w) ==
  /\ worker[w].pc \in {"load", "call", "exec", "send", "mark", "lock"}
  /\ worker[w].fromIdle

\* The step takes schedules out of the idle ring.
RingShrinks == Range(idleRing) \ Range(idleRing') # {}

\* C37: the idle ring loses a schedule only in the step of a worker that ends
\* the execute of the schedule its Next() returned in this tick, and from
\* that Next() to this step the ring has not changed (no insert in between);
\* the step takes out exactly that schedule, leaves the ring empty if it was
\* the only one, and otherwise keeps the cyclic order of the others with the
\* following Next() returning the successor of the removed schedule.
IdleRingRemoval ==
  /\ [](\A w \in Runs :
          AfterRingNext(w) =>
            Len(idleRing) > 0 /\ idleRing[1] = worker[w].candidate)
  /\ [][/\ \A w \in Runs :
             (AfterRingNext(w) /\ idleRing' # idleRing) =>
               worker[w].pc = "lock" /\ worker'[w].pc = "poll"
        /\ \A w \in Runs :
             (AfterRingNext(w) /\ worker[w].pc = "lock" /\ worker'[w].pc = "poll") =>
               worker[w].candidate \notin Range(idleRing')
        /\ RingShrinks =>
             \E w \in Runs :
               /\ AfterRingNext(w)
               /\ worker[w].pc = "lock"
               /\ worker'[w].pc = "poll"
               /\ Range(idleRing) \ Range(idleRing') = {worker[w].candidate}
               /\ Len(idleRing') = Len(idleRing) - 1
               /\ Len(idleRing) = 1 => idleRing' = << >>
               /\ Len(idleRing) > 1 =>
                    /\ RingNext(idleRing') = Tail(idleRing)
                    /\ RingNext(idleRing')[1] = idleRing[2]]_vars

\* C37: the worker has executed and finalized an idle schedule and taken it
\* out of a ring of three, the other two staying in the ring.
IdleRingRemovalWitness ==
  \E w \in Runs :
    /\ worker[w].pc = "poll"
    /\ worker[w].didExecute
    /\ Len(idleRing) = 2
    /\ \E t \in Tasks :
         /\ HasFlag(schedules[t].Flags, ScheduleIdle)
         /\ t \notin Range(idleRing)
         /\ execs[t] = 1
         /\ fins[t] = 1
         /\ \A u \in Range(idleRing) : u < t

\* ------------------------------------------------------------------- C38
\* C38: an idle schedule is executed from the ring again only when every
\* other schedule that has stayed in the ring since its last execution has
\* been executed in between, also where schedules were inserted meanwhile.
IdleFairnessAcrossInserts ==
  \A w \in Runs :
    (worker[w].pc = "call" /\ worker[w].fromIdle) =>
      \A u \in Tasks : <<worker[w].candidate, u>> \notin passedOver

\* ------------------------------------------------------------------- C39
\* C39: a schedule that is in the waiting queue, the pending queue or the
\* idle ring when the worker leaves its loop after the stop signal has not
\* been finalized, and from that step on, through the worker's exit and any
\* later Start, it is neither executed nor finalized.
ShutdownLeavesWork ==
  /\ [](\A t \in leftBehind : fins[t] = 0)
  /\ [][\A t \in leftBehind' :
          execs'[t] = execs[t] /\ fins'[t] = fins[t]]_vars

\* C39: the scheduler was stopped with a schedule that never executed in a
\* queue or in the ring, and started again; the worker of the new run
\* executes a schedule, and the one left behind has still not executed.
ShutdownLeavesWorkWitness ==
  /\ starts = 2
  /\ worker[2].pc = "exec"
  /\ \E t \in leftBehind : execs[t] = 0 /\ fins[t] = 0 /\ ~Removed(t)

\* ------------------------------------------------------------------- C40
\* While the scheduler is not running and is not started, nothing that
\* SignalStop, WaitStop or Stop write changes.
StopCallsIdle ==
  (~isRunning /\ starts' = starts) =>
    /\ isRunning' = isRunning
    /\ scheduleChan'.closed = scheduleChan.closed
    /\ waitGroup' = waitGroup
    /\ worker' = worker

\* C40: whatever Start, Add, Remove, SignalStop and WaitStop calls are made on
\* a scheduler that was started, no run-time panic occurs (scheduleChan is
\* not closed twice and Add does not send on the closed scheduleChan), and
\* the stop calls change nothing while the scheduler is not running.
IngressClosingSafe ==
  /\ [](~fault)
  /\ [][StopCallsIdle]_vars

\* The part of C40 about a scheduler that is not running.
StopCallsIdleAlways == [][StopCallsIdle]_vars

\* scheduleChan is not closed a second time: no panic occurs while no Add is
\* under way and no worker is at a step that can panic.
NeverClosedTwice ==
  [][(adding = NoSchedule
      /\ \A w \in Runs : worker[w].pc \notin {"send", "closing", "exiting"})
       => fault' = fault]_vars

\* No Add of the current run is at its send while scheduleChan is closed
\* (the send of such an Add panics).
NoAddAtClosedChannel ==
  ~(adding # NoSchedule /\ schedules[adding].run = starts
    /\ scheduleChan.closed /\ ~fault)

====
